---- MODULE Spec2Model ----
(***************************************************************************)
(* Leaderboard synchronisation of the face game: the client-side           *)
(* LeaderboardManager (in-memory lists, localStorage cache, remote         *)
(* fallback) and the two serverless backends behind                        *)
(* /.netlify/functions/scores (key-value blob store, Google Sheets); and   *)
(* the game page itself (game.js): start, answers, swipes, the countdown.  *)
(***************************************************************************)
EXTENDS Integers, Sequences, FiniteSets, TLC

(***************************************************************************)
(* Bounds of the model.                                                    *)
(***************************************************************************)
MaxCalls == 1       \* calls made on the manager after its construction
MaxTicks == 1       \* how many times the millisecond clock advances
NPeople == 2        \* people in data.json
MaxGain == 1        \* how far the score of a game rises above its start
MaxAdvances == 2    \* how many times Date.now() advances in the game

(***************************************************************************)
(* Program constants.                                                      *)
(***************************************************************************)
ManagerTop == 10    \* top-N of the manager's local fallback
KvTop == 10         \* top-N of the key-value backend
SheetTop == 10      \* top-N of the spreadsheet backend's GET
StartScore == 10    \* score = 10 in startGame
CLICK_BUFFER_TIME == 500
SWIPE_THRESHOLD == 50

Modes == {"easy", "hard"}
OtherMode(m) == IF m = "easy" THEN "hard" ELSE "easy"

(***************************************************************************)
(* JavaScript values.  A value held in memory is an array of entries, or   *)
(* the object {success: true} the spreadsheet POST answers with.  An entry *)
(* is {name, score, date} with an optional mode key ("-" when the key is   *)
(* absent); a date is the ISO-8601 string of a millisecond instant.  A     *)
(* score is a number, or the string of a number's digits (typeofScore),    *)
(* which b.score - a.score coerces to that number.                         *)
(***************************************************************************)
ToISOString(t) == [iso |-> t]
DateParse(d) == d.iso

Arr(items) == [t |-> "arr", items |-> items]
EmptyArr == Arr(<<>>)
SuccessObj == [t |-> "obj", items |-> <<>>]
ErrorObj == [t |-> "err", items |-> <<>>]

NewEntry(name, score, t) ==
    [name |-> name, score |-> score, date |-> ToISOString(t), mode |-> "-",
     typeofScore |-> "number"]

\* x.length: a number for an array, undefined for any other object
LengthOf(v) == IF v.t = "arr" THEN [def |-> TRUE, n |-> Len(v.items)]
                              ELSE [def |-> FALSE, n |-> 0]
\* a < k, a <= k, a > k with a possibly undefined: undefined compares false
JsLt(a, k) == a.def /\ a.n < k
JsLe(a, k) == a.def /\ a.n <= k
JsGt(a, k) == a.def /\ a.n > k

(***************************************************************************)
(* JSON text.  A text is absent (null from getItem / store.get), corrupt   *)
(* (JSON.parse throws) or the encoding of a value: each entry becomes the  *)
(* tuple of its keys' values.                                              *)
(***************************************************************************)
NoText == [k |-> "null", a |-> "", e |-> <<>>]
CorruptText == [k |-> "corrupt", a |-> "", e |-> <<>>]

EncodeEntry(x) == <<x.mode, x.name, x.score, x.date, x.typeofScore>>
\* the parse that loses the date of an entry
DecodeEntryDateLost(p) ==
    [name |-> p[2], score |-> p[3], date |-> ToISOString(0), mode |-> p[1],
     typeofScore |-> p[5]]
DecodeEntry(p) ==
    [name |-> p[2], score |-> p[3], date |-> p[4], mode |-> p[1], typeofScore |-> p[5]]

JSONstringify(v) ==
    [k |-> "json", a |-> v.t, e |-> [i \in 1..Len(v.items) |-> EncodeEntry(v.items[i])]]
CanParse(txt) == txt.k = "json"
JSONparse(txt) ==
    [t |-> txt.a, items |-> [i \in 1..Len(txt.e) |-> DecodeEntry(txt.e[i])]]

(***************************************************************************)
(* Array.prototype.sort is stable; the comparator returns b - a.           *)
(***************************************************************************)
\* b.score !== a.score is also true of a number and the string of its digits
CompareByScoreThenDate(a, b) ==
    IF b.score # a.score \/ b.typeofScore # a.typeofScore THEN b.score - a.score
    ELSE DateParse(b.date) - DateParse(a.date)
CompareByScore(a, b) == b.score - a.score

Compare(how, a, b) ==
    IF how = "score" THEN CompareByScore(a, b) ELSE CompareByScoreThenDate(a, b)

\* x placed before the first element that must come strictly after it
RECURSIVE InsertStable(_, _, _)
InsertStable(how, x, s) ==
    IF s = <<>> THEN <<x>>
    ELSE IF Compare(how, Head(s), x) > 0 THEN <<x>> \o s
    ELSE <<Head(s)>> \o InsertStable(how, x, Tail(s))

RECURSIVE SortBy(_, _)
SortBy(how, s) ==
    IF s = <<>> THEN <<>>
    ELSE InsertStable(how, s[Len(s)], SortBy(how, SubSeq(s, 1, Len(s) - 1)))

Truncate(s, n) == IF Len(s) > n THEN SubSeq(s, 1, n) ELSE s
Slice(s, n) == SubSeq(s, 1, IF Len(s) < n THEN Len(s) ELSE n)

(***************************************************************************)
(* State.                                                                  *)
(***************************************************************************)
VARIABLES
    backend,    \* which handler is deployed behind /.netlify/functions/scores
    now,        \* the clock read by new Date(), in milliseconds
    mem,        \* easyModeScores / hardModeScores of the manager
    cache,      \* localStorage: leaderboard_<mode> -> text
    kv,         \* blob store of the key-value backend: scores_<mode> -> text
    sheet,      \* rows of Sheet1!A:D of the spreadsheet backend
    ops,        \* the manager's calls, in invocation order
    net,        \* the fetch issued by each call
    game        \* the page of the game: the variables of game.js

vars == <<backend, now, mem, cache, kv, sheet, ops, net, game>>

(***************************************************************************)
(* The game page (game.js).  game is the record of the script's variables  *)
(* (null is written 0 for a person or a timer handle), together with what  *)
(* the page holds besides them: the intervals that are running, the        *)
(* handler in startGameBtn.onclick and the button's label, whether the     *)
(* game-over modal is hidden, the pending fetch of data.json, Date.now().  *)
(* A function of the script is an operator from the record before to the   *)
(* record after; threw says that the running handler ended in an           *)
(* exception, hung that it never returns (the page is frozen), selected    *)
(* how the last call of selectRandomPerson in the running handler ended.   *)
(***************************************************************************)
People == 1..NPeople
TimerIds == {1, 2}
StartClock == 2 * CLICK_BUFFER_TIME
ClockStep == CLICK_BUFFER_TIME \div 2

InitialGame ==
    [usedImages |-> {}, gameStarted |-> FALSE, gameData |-> "null",
     currentPerson |-> 0, otherPerson |-> 0, currentMode |-> "easy",
     score |-> StartScore, highScore |-> 0, correctNameOnTop |-> FALSE,
     gameTimer |-> 0, highestScoreThisGame |-> 0, lastClickTime |-> 0,
     touchStartY |-> 0, touchEndY |-> 0,
     intervals |-> {}, onclick |-> "none", label |-> "Start Game",
     modalHidden |-> TRUE, fetching |-> TRUE, clock |-> StartClock,
     threw |-> FALSE, hung |-> FALSE, selected |-> "-"]

\* a handler starts running
Enter(g) == [g EXCEPT !.threw = FALSE, !.selected = "-"]
Throw(g) == [g EXCEPT !.threw = TRUE]
Stopped(g) == g.threw \/ g.hung

\* list[Math.floor(Math.random() * list.length)] over the people of a set,
\* kept in the order of data.json
Least(S) == CHOOSE x \in S : \A y \in S : x <= y
RECURSIVE Nth(_, _)
Nth(S, n) == IF n = 0 THEN Least(S) ELSE Nth(S \ {Least(S)}, n - 1)
RandomOf(S, r) == Nth(S, r % Cardinality(S))

\* score shown; highestScoreThisGame follows the score upwards
UpdateScore(g) ==
    [g EXCEPT !.highestScoreThisGame = IF g.score > @ THEN g.score ELSE @]

\* if (gameTimer) { clearInterval(gameTimer); gameTimer = null; }
ClearTimer(g) ==
    IF g.gameTimer # 0
    THEN [g EXCEPT !.intervals = @ \ {g.gameTimer}, !.gameTimer = 0]
    ELSE g

GameOver(g) ==
    LET c == ClearTimer(g)
    IN  [c EXCEPT !.highScore = IF c.highestScoreThisGame > @
                                THEN c.highestScoreThisGame ELSE @,
                  !.modalHidden = FALSE,
                  !.gameStarted = FALSE]

\* selectRandomPerson.  gameData.people of null throws; the assignment to
\* the const availablePeople throws once usedImages is cleared; the
\* do-while draws until the other person is neither the current one nor a
\* used one, and never ends when there is no such person.
SelectRandomPerson(g, rnd) ==
    IF g.gameData = "null" THEN [Throw(g) EXCEPT !.selected = "threw"]
    ELSE LET availablePeople == People \ g.usedImages
         IN  IF availablePeople = {}
             THEN [Throw(g) EXCEPT !.usedImages = {}, !.selected = "threw"]
             ELSE LET person == RandomOf(availablePeople, rnd.pick)
                      others == (People \ {person}) \ g.usedImages
                  IN  IF others = {}
                      THEN [g EXCEPT !.currentPerson = person,
                                     !.hung = TRUE, !.selected = "hung"]
                      ELSE [g EXCEPT !.currentPerson = person,
                                     !.otherPerson = RandomOf(others, rnd.other),
                                     !.correctNameOnTop = rnd.top,
                                     !.selected = "chosen"]

\* setInterval hands out a handle that is not in use and not the last one
NewTimer(g) == Least((TimerIds \ g.intervals) \ {g.gameTimer})

\* startGame up to selectRandomPerson, and after it
StartGameReset(g) ==
    UpdateScore([g EXCEPT !.gameStarted = TRUE, !.usedImages = {},
                          !.score = StartScore, !.highestScoreThisGame = StartScore,
                          !.lastClickTime = 0])
StartGameTimer(g) ==
    [g EXCEPT !.label = "Next Person", !.onclick = "selectRandomPerson",
              !.intervals = (@ \ {g.gameTimer}) \cup {NewTimer(g)},
              !.gameTimer = NewTimer(g)]

StartGame(g, rnd) ==
    LET sel == SelectRandomPerson(StartGameReset(g), rnd)
    IN  IF Stopped(sel) THEN sel ELSE StartGameTimer(sel)

ResetGame(g) ==
    ClearTimer([g EXCEPT !.gameStarted = FALSE, !.usedImages = {},
                         !.label = "Start Game", !.onclick = "startGame"])

SetMode(g, mode) ==
    LET m == [g EXCEPT !.currentMode = mode]
    IN  IF m.gameStarted THEN ResetGame(m) ELSE m

\* handleNameClick; currentPerson.id of null throws after score += 1
HandleNameClick(g, isTopName, rnd) ==
    IF ~g.gameStarted THEN g
    ELSE IF g.clock - g.lastClickTime < CLICK_BUFFER_TIME THEN g
    ELSE LET t == [g EXCEPT !.lastClickTime = g.clock]
             isCorrect == (isTopName = g.correctNameOnTop)
         IN  IF isCorrect /\ g.currentPerson = 0
             THEN Throw([t EXCEPT !.score = @ + 1])
             ELSE LET u == UpdateScore(
                             IF isCorrect
                             THEN [t EXCEPT !.score = @ + 1,
                                            !.usedImages = @ \cup {g.currentPerson}]
                             ELSE [t EXCEPT !.score = @ - 1])
                  IN  IF u.score <= 0 THEN GameOver(u)
                      ELSE SelectRandomPerson(u, rnd)

\* the callback of setInterval
Countdown(g) ==
    LET u == UpdateScore([g EXCEPT !.score = @ - 1])
    IN  IF u.score <= 0 THEN GameOver(u) ELSE u

\* the touchend listener
TouchEnd(g, y, rnd) ==
    IF ~g.gameStarted THEN g
    ELSE LET e == [g EXCEPT !.touchEndY = y]
             swipeDistance == y - g.touchStartY
         IN  IF e.clock - e.lastClickTime < CLICK_BUFFER_TIME THEN e
             ELSE IF swipeDistance >= SWIPE_THRESHOLD \/ -swipeDistance >= SWIPE_THRESHOLD
             THEN HandleNameClick([e EXCEPT !.lastClickTime = e.clock],
                                  swipeDistance < 0, rnd)
             ELSE e

\* a click on startGameBtn: the listener added with addEventListener runs
\* first; the handler in onclick runs after it when the property was set
\* before this click, with the value it has by then.  An exception in one
\* listener does not keep the next from running.
RunOnclick(g, rnd) ==
    IF g.hung THEN g
    ELSE IF g.onclick = "startGame" THEN StartGame(Enter(g), rnd)
    ELSE SelectRandomPerson(Enter(g), rnd)
StartButton(g, rnd1, rnd2) ==
    LET first == StartGame(Enter(g), rnd1)
    IN  IF g.onclick = "none" THEN first ELSE RunOnclick(first, rnd2)


(***************************************************************************)
(* Lists persisted by earlier sessions, used as initial contents.          *)
(***************************************************************************)
FullScores == <<50, 40, 40, 30, 30, 20, 10, 10, 0, 0>>
FullDates == <<5, 9, 3, 8, 2, 7, 10, 1, 6, 4>>
FullList == [i \in 1..Len(FullScores) |-> NewEntry("P", FullScores[i], FullDates[i])]
FewList == <<NewEntry("Q", 7, 12), NewEntry("Q", 7, 11), NewEntry("Q", 3, 13)>>
StartTime == 2 * ManagerTop

\* the rows a sequence of accepted POSTs leaves in the sheet: append order is date order
ToCell(n) == [str |-> n]
Number(c) == c.str
RowOf(mode, name, score, t) ==
    [mode |-> mode, name |-> name, score |-> ToCell(score), date |-> ToISOString(t)]
RECURSIVE RowsOf(_, _, _)
RowsOf(mode, list, t) ==
    IF t > StartTime THEN <<>>
    ELSE LET at == SelectSeq(list, LAMBDA x : DateParse(x.date) = t)
         IN  (IF at = <<>> THEN <<>>
              ELSE <<RowOf(mode, at[1].name, at[1].score, t)>>) \o RowsOf(mode, list, t + 1)

(***************************************************************************)
(* Requests and calls.                                                     *)
(***************************************************************************)
Request(method, mode, hasName, name, hasScore, score) ==
    [st |-> "sent", method |-> method, mode |-> mode,
     hasName |-> hasName, name |-> name, hasScore |-> hasScore, score |-> score,
     typeofScore |-> IF hasScore THEN "number" ELSE "undefined",
     status |-> 0, body |-> NoText, tmp |-> <<>>]

Call(kind, mode, name, score) ==
    [kind |-> kind, mode |-> mode, name |-> name, score |-> score,
     typeofScore |-> "number", live |-> FALSE,
     pc |-> "fetch", outcome |-> "pending", path |-> "-",
     retb |-> FALSE, retv |-> EmptyArr]

Names == {"K"}
ScoreInputs == {-1, 0, 45}

UserCalls == Len(ops) - 2
CanCall == UserCalls < MaxCalls

Replied(i) == net[i].st = "replied"
ResponseOk(i) == Replied(i) /\ net[i].status >= 200 /\ net[i].status <= 299
\* fetch rejects: the request never reached the handler, or its response was lost
MayReject(i) == net[i].st \in {"sent", "replied"}
FetchFailed(i) == (Replied(i) /\ ~ResponseOk(i)) \/ MayReject(i)

\* the fallback that sends its request once more
CloseAndRetry(i) == [net EXCEPT ![i].st = "sent", ![i].body = NoText, ![i].tmp = <<>>]
Close(i) == [net EXCEPT ![i].st = "closed", ![i].body = NoText, ![i].tmp = <<>>]
Finish(i, outcome, path) ==
    [ops EXCEPT ![i].pc = "done", ![i].outcome = outcome, ![i].path = path]

\* getScores hands out the array held in the field of the mode, not a copy:
\* the result of a call is live while the field still holds that array.
\* Assigning another array to the field leaves earlier results as they were;
\* push, sort and length = 10 on the array show in every live result.
Detach(o, mode) ==
    [k \in 1..Len(o) |->
        IF o[k].live /\ o[k].mode = mode THEN [o[k] EXCEPT !.live = FALSE] ELSE o[k]]
MutateInPlace(o, mode, v) ==
    [k \in 1..Len(o) |->
        IF o[k].live /\ o[k].mode = mode THEN [o[k] EXCEPT !.retv = v] ELSE o[k]]

(***************************************************************************)
(* LeaderboardManager.                                                     *)
(***************************************************************************)
\* the assignment without its else branch: every mode lands in easyModeScores
SetScoresAlwaysEasy(mm, mode, v) == [mm EXCEPT !["easy"] = v]

\* if (mode === 'easy') this.easyModeScores = v; else this.hardModeScores = v;
SetScores(mm, mode, v) ==
    IF mode = "easy" THEN [mm EXCEPT !["easy"] = v] ELSE [mm EXCEPT !["hard"] = v]

GetScores(mm, mode) == IF mode = "easy" THEN mm["easy"] ELSE mm["hard"]

\* localStorage.setItem(`leaderboard_${mode}`, text)
SetItem(c, mode, txt) == [c EXCEPT ![mode] = txt]
GetItem(c, mode) == c[mode]

SaveScores(c, mode, scores) == SetItem(c, mode, JSONstringify(scores))

\* the load that forgets its setItem
LoadAdoptCacheSkipped(c, mode, body) == c

\* loadScores, response.ok: adopt the body and refresh the cache
LoadAdoptMem(mm, mode, body) == SetScores(mm, mode, JSONparse(body))
LoadAdoptCache(c, mode, body) == SetItem(c, mode, JSONstringify(JSONparse(body)))

\* loadScores, fallback: cachedScores ? JSON.parse(cachedScores) : []
LoadFallbackThrows(c, mode) ==
    GetItem(c, mode) # NoText /\ ~CanParse(GetItem(c, mode))
\* the fallback that never reads the cache
LoadFallbackScoresEmpty(c, mode) == EmptyArr
LoadFallbackScores(c, mode) ==
    IF GetItem(c, mode) # NoText THEN JSONparse(GetItem(c, mode)) ELSE EmptyArr

\* the submission that forgets to mirror the answer
AddAdoptCacheSkipped(c, mode, body) == c

\* addScore, response.ok: adopt the body and mirror it
AddAdoptMem(mm, mode, body) == SetScores(mm, mode, JSONparse(body))
AddAdoptCache(c, mode, body) == SaveScores(c, mode, JSONparse(body))

\* addScore, fallback: push, sort, truncate in place; scores.push is a TypeError
\* when the in-memory value is not an array
LocalThrows(scores) == scores.t # "arr"
\* { name, score, date: new Date().toISOString() }: name and score as passed in
LocalEntry(op, t) == [NewEntry(op.name, op.score, t) EXCEPT !.typeofScore = op.typeofScore]
LocalInsert(scores, entry) ==
    Arr(Truncate(SortBy("date", Append(scores.items, entry)), ManagerTop))

\* the clear that leaves the in-memory list for later
ClearMemDeferred(mm, mode) == mm

\* clearScores, before its fetch
ClearMem(mm, mode) == SetScores(mm, mode, EmptyArr)
ClearCache(c, mode) == SaveScores(c, mode, EmptyArr)

\* the predicate without its length test
IsHighScoreNoLength(scores, score) ==
    score > (IF JsGt(LengthOf(scores), 0)
             THEN scores.items[Len(scores.items)].score ELSE 0)

\* the predicate with a non-strict comparison
IsHighScoreOrEqual(scores, score) ==
    LET lowestScore == IF JsGt(LengthOf(scores), 0)
                       THEN scores.items[Len(scores.items)].score ELSE 0
    IN  JsLt(LengthOf(scores), ManagerTop) \/ score >= lowestScore

IsHighScore(scores, score) ==
    LET lowestScore == IF JsGt(LengthOf(scores), 0)
                       THEN scores.items[Len(scores.items)].score ELSE 0
    IN  JsLt(LengthOf(scores), ManagerTop) \/ score > lowestScore

\* JSON.stringify({mode, name, score}) and JSON.stringify({mode})
SubmitRequest(mode, name, score) == Request("POST", mode, TRUE, name, TRUE, score)
ClearRequest(mode) == Request("POST", mode, FALSE, "", FALSE, 0)
LoadRequest(mode) == Request("GET", mode, FALSE, "", FALSE, 0)

LoadScoresOk(i) ==
    /\ i \in 1..Len(ops) /\ ops[i].kind = "load" /\ ops[i].pc = "fetch"
    /\ ResponseOk(i)
    /\ mem' = LoadAdoptMem(mem, ops[i].mode, net[i].body)
    /\ cache' = LoadAdoptCache(cache, ops[i].mode, net[i].body)
    /\ ops' = Detach(Finish(i, "resolved", "remote"), ops[i].mode)
    /\ net' = Close(i)
    /\ UNCHANGED <<game, backend, now, kv, sheet>>

LoadScoresFallback(i) ==
    /\ i \in 1..Len(ops) /\ ops[i].kind = "load" /\ ops[i].pc = "fetch"
    /\ FetchFailed(i)
    /\ IF LoadFallbackThrows(cache, ops[i].mode)
       THEN /\ ops' = Finish(i, "rejected", "cache")
            /\ mem' = mem
       ELSE /\ ops' = Detach(Finish(i, "resolved", "cache"), ops[i].mode)
            /\ mem' = SetScores(mem, ops[i].mode, LoadFallbackScores(cache, ops[i].mode))
    /\ net' = Close(i)
    /\ UNCHANGED <<game, backend, now, cache, kv, sheet>>

\* limit: how many calls the user makes in all
AddScoreCallWithin(limit, mode, name, score) ==
    /\ UserCalls < limit
    /\ ops' = Append(ops, Call("add", mode, name, score))
    /\ net' = Append(net, SubmitRequest(mode, name, score))
    /\ UNCHANGED <<game, backend, now, mem, cache, kv, sheet>>

AddScoreCall(mode, name, score) == AddScoreCallWithin(MaxCalls, mode, name, score)

AddScoreOk(i) ==
    /\ i \in 1..Len(ops) /\ ops[i].kind = "add" /\ ops[i].pc = "fetch"
    /\ ResponseOk(i)
    /\ mem' = AddAdoptMem(mem, ops[i].mode, net[i].body)
    /\ cache' = AddAdoptCache(cache, ops[i].mode, net[i].body)
    /\ ops' = Detach(Finish(i, "resolved", "remote"), ops[i].mode)
    /\ net' = Close(i)
    /\ UNCHANGED <<game, backend, now, kv, sheet>>

AddScoreFallback(i) ==
    /\ i \in 1..Len(ops) /\ ops[i].kind = "add" /\ ops[i].pc = "fetch"
    /\ FetchFailed(i)
    /\ LET scores == GetScores(mem, ops[i].mode)
       IN  IF LocalThrows(scores)
           THEN /\ ops' = Finish(i, "rejected", "local")
                /\ UNCHANGED <<mem, cache>>
           ELSE LET updated == LocalInsert(scores, LocalEntry(ops[i], now))
                IN  /\ ops' = MutateInPlace(Finish(i, "resolved", "local"),
                                                ops[i].mode, updated)
                    /\ mem' = SetScores(mem, ops[i].mode, updated)
                    /\ cache' = SaveScores(cache, ops[i].mode, updated)
    /\ net' = Close(i)
    /\ UNCHANGED <<game, backend, now, kv, sheet>>

ClearScoresCallWithin(limit, mode) ==
    /\ UserCalls < limit
    /\ mem' = ClearMem(mem, mode)
    /\ cache' = ClearCache(cache, mode)
    /\ ops' = Append(Detach(ops, mode), Call("clear", mode, "", 0))
    /\ net' = Append(net, ClearRequest(mode))
    /\ UNCHANGED <<game, backend, now, kv, sheet>>

ClearScoresCall(mode) == ClearScoresCallWithin(MaxCalls, mode)

\* the awaited fetch settles either way; its response is not looked at
ClearScoresDone(i) ==
    /\ i \in 1..Len(ops) /\ ops[i].kind = "clear" /\ ops[i].pc = "fetch"
    /\ MayReject(i)
    /\ ops' = Finish(i, "resolved", IF Replied(i) THEN "remote" ELSE "local")
    /\ net' = Close(i)
    /\ UNCHANGED <<game, backend, now, mem, cache, kv, sheet>>

Returned(kind, mode, score, b, v) ==
    [Call(kind, mode, "", score) EXCEPT
        !.pc = "done", !.outcome = "resolved", !.path = "sync", !.retb = b, !.retv = v]
NoRequest == [LoadRequest("easy") EXCEPT !.st = "closed"]

\* the read that asks the remote for the list first
GetScoresCallFetching(mode) ==
    /\ CanCall
    /\ ops' = Append(ops, [Returned("get", mode, 0, FALSE, GetScores(mem, mode))
                              EXCEPT !.live = TRUE])
    /\ net' = Append(net, LoadRequest(mode))
    /\ UNCHANGED <<game, backend, now, mem, cache, kv, sheet>>

GetScoresCall(mode) ==
    /\ CanCall
    /\ ops' = Append(ops, [Returned("get", mode, 0, FALSE, GetScores(mem, mode))
                              EXCEPT !.live = TRUE])
    /\ net' = Append(net, NoRequest)
    /\ UNCHANGED <<game, backend, now, mem, cache, kv, sheet>>

IsHighScoreCall(mode, score) ==
    /\ CanCall
    /\ ops' = Append(ops, Returned("high", mode, score,
                                   IsHighScore(GetScores(mem, mode), score),
                                   GetScores(mem, mode)))
    /\ net' = Append(net, NoRequest)
    /\ UNCHANGED <<game, backend, now, mem, cache, kv, sheet>>

\* the clock is read only to stamp a submission: its advance is observable only
\* while one is in flight
Tick ==
    /\ now < StartTime + MaxTicks
    /\ \E i \in 1..Len(ops) : ops[i].kind = "add" /\ ops[i].pc = "fetch"
    /\ now' = now + 1
    /\ UNCHANGED <<game, backend, mem, cache, kv, sheet, ops, net>>

(***************************************************************************)
(* The handlers.  A backend call (store.get, store.set, values.append,     *)
(* values.get) may fail: fail is chosen by the environment.                *)
(***************************************************************************)
Reply(i, status, v) ==
    [net EXCEPT ![i].st = "replied", ![i].status = status,
                ![i].body = JSONstringify(v), ![i].tmp = <<>>]

\* event.queryStringParameters?.mode || 'easy'
ModeOrEasy(r) == IF r.mode = "" THEN "easy" ELSE r.mode

\* scoresDb.getScores: a failed read and a missing blob both give []
KvGetScores(store, mode, fail) ==
    IF fail THEN EmptyArr
    ELSE IF mode \notin DOMAIN store \/ store[mode] = NoText THEN EmptyArr
    ELSE IF CanParse(store[mode]) THEN JSONparse(store[mode])
    ELSE EmptyArr

\* scoresDb.saveScores between its read and its write
\* { name, score, date: new Date().toISOString() }: the score goes in as received
KvEntry(r, t) == [NewEntry(r.name, r.score, t) EXCEPT !.typeofScore = r.typeofScore]
KvInsert(scores, entry) ==
    Truncate(SortBy("date", Append(scores.items, entry)), KvTop)

\* !mode || !name || score === undefined
KvInvalid(r) == r.mode = "" \/ ~r.hasName \/ r.name = "" \/ ~r.hasScore
\* !mode || typeof score !== 'number'
SheetInvalid(r) == r.mode = "" \/ r.typeofScore # "number"

\* the GET served while store.get fails (fail) or succeeds
KvGetWith(i, fail) ==
    /\ backend = "kv"
    /\ i \in 1..Len(net) /\ net[i].st = "sent" /\ net[i].method = "GET"
    /\ net' = Reply(i, 200, KvGetScores(kv, ModeOrEasy(net[i]), fail))
    /\ UNCHANGED <<game, backend, now, mem, cache, kv, sheet, ops>>

KvGet(i) == \E fail \in BOOLEAN : KvGetWith(i, fail)

\* POST up to the read of the current list inside saveScores, the read
\* failing (fail) or not
KvPostReadWith(i, fail) ==
    /\ backend = "kv"
    /\ i \in 1..Len(net) /\ net[i].st = "sent" /\ net[i].method = "POST"
    /\ IF KvInvalid(net[i])
       THEN net' = Reply(i, 400, ErrorObj)
       ELSE net' = [net EXCEPT ![i].st = "read",
                      ![i].tmp = KvInsert(KvGetScores(kv, net[i].mode, fail),
                                          KvEntry(net[i], now))]
    /\ UNCHANGED <<game, backend, now, mem, cache, kv, sheet, ops>>

KvPostRead(i) == \E fail \in BOOLEAN : KvPostReadWith(i, fail)

\* store.set: a failure is rethrown and answered with 500
KvPostWrite(i) ==
    /\ backend = "kv"
    /\ i \in 1..Len(net) /\ net[i].st = "read"
    /\ \E fail \in BOOLEAN :
          IF fail
          THEN /\ net' = Reply(i, 500, ErrorObj)
               /\ kv' = kv
          ELSE /\ net' = [net EXCEPT ![i].st = "written"]
               /\ kv' = [kv EXCEPT ![net[i].mode] = JSONstringify(Arr(net[i].tmp))]
    /\ UNCHANGED <<game, backend, now, mem, cache, sheet, ops>>

\* the handler reads the list again for its response
KvPostReread(i) ==
    /\ backend = "kv"
    /\ i \in 1..Len(net) /\ net[i].st = "written"
    /\ \E fail \in BOOLEAN :
          net' = Reply(i, 200, KvGetScores(kv, net[i].mode, fail))
    /\ UNCHANGED <<game, backend, now, mem, cache, kv, sheet, ops>>

\* rows.filter(mode).map(Number(score)).sort(by score).slice(0, 10)
SheetScores(rows, mode) ==
    LET mine == SelectSeq(rows, LAMBDA row : row.mode = mode)
        mapped == [j \in 1..Len(mine) |->
                     [name |-> mine[j].name, score |-> Number(mine[j].score),
                      date |-> mine[j].date, mode |-> mine[j].mode,
                      typeofScore |-> "number"]]
    IN  Slice(SortBy("score", mapped), SheetTop)

SheetPost(i) ==
    /\ backend = "sheet"
    /\ i \in 1..Len(net) /\ net[i].st = "sent" /\ net[i].method = "POST"
    /\ IF SheetInvalid(net[i])
       THEN net' = Reply(i, 400, ErrorObj) /\ sheet' = sheet
       ELSE \E fail \in BOOLEAN :
              IF fail
              THEN net' = Reply(i, 500, ErrorObj) /\ sheet' = sheet
              ELSE /\ sheet' = Append(sheet, RowOf(net[i].mode, net[i].name,
                                                   net[i].score, now))
                   /\ net' = Reply(i, 200, SuccessObj)
    /\ UNCHANGED <<game, backend, now, mem, cache, kv, ops>>

\* the GET served while values.get fails (fail) or succeeds
SheetGetWith(i, fail) ==
    /\ backend = "sheet"
    /\ i \in 1..Len(net) /\ net[i].st = "sent" /\ net[i].method = "GET"
    /\ IF fail
       THEN net' = Reply(i, 500, ErrorObj)
       ELSE net' = Reply(i, 200, Arr(SheetScores(sheet, ModeOrEasy(net[i]))))
    /\ UNCHANGED <<game, backend, now, mem, cache, kv, sheet, ops>>

SheetGet(i) == \E fail \in BOOLEAN : SheetGetWith(i, fail)

(***************************************************************************)
(* The two handlers side by side.  Requests are served one after the       *)
(* other; each is handed to the key-value handler and to the spreadsheet   *)
(* handler at the same instant, each handler working on its own store.     *)
(* net keeps the two answers to every request, key-value first.            *)
(***************************************************************************)
MaxRequests == 3    \* requests served side by side

Answer(status, v, store) ==
    [status |-> status, body |-> JSONstringify(v), store |-> store]

\* exports.handler of the key-value backend, from request to response
KvHandler(store, r, t, failRead, failWrite, failReread) ==
    IF r.method = "GET"
    THEN Answer(200, KvGetScores(store, ModeOrEasy(r), failRead), store)
    ELSE IF KvInvalid(r) THEN Answer(400, ErrorObj, store)
    ELSE IF failWrite THEN Answer(500, ErrorObj, store)
    ELSE LET updated == KvInsert(KvGetScores(store, r.mode, failRead), KvEntry(r, t))
             written == [store EXCEPT ![r.mode] = JSONstringify(Arr(updated))]
         IN  Answer(200, KvGetScores(written, r.mode, failReread), written)

\* exports.handler of the spreadsheet backend, from request to response
SheetHandler(rows, r, t, fail) ==
    IF r.method = "POST"
    THEN IF SheetInvalid(r) THEN Answer(400, ErrorObj, rows)
         ELSE IF fail THEN Answer(500, ErrorObj, rows)
         ELSE Answer(200, SuccessObj, Append(rows, RowOf(r.mode, r.name, r.score, t)))
    ELSE IF fail THEN Answer(500, ErrorObj, rows)
         ELSE Answer(200, Arr(SheetScores(rows, ModeOrEasy(r))), rows)

Answered(r, a) == [r EXCEPT !.st = "replied", !.status = a.status, !.body = a.body]

\* queries and bodies a client can send: a GET for a known mode, for no mode
\* or for a mode that does not exist; a POST that is complete, without mode,
\* without name, with the score as a string, without score
ServiceRequests ==
    { Request("GET", m, FALSE, "", FALSE, 0) : m \in Modes \cup {"", "medium"} }
    \cup { Request("POST", m, TRUE, "K", TRUE, 45) : m \in Modes \cup {""} }
    \cup { Request("POST", "easy", FALSE, "", TRUE, 45),
           [Request("POST", "easy", TRUE, "K", TRUE, 45) EXCEPT !.typeofScore = "string"],
           Request("POST", "easy", TRUE, "K", FALSE, 0) }

Serve(r, failRead, failWrite, failReread, failSheet) ==
    /\ Len(net) < 2 * MaxRequests
    /\ LET k == KvHandler(kv, r, now, failRead, failWrite, failReread)
           s == SheetHandler(sheet, r, now, failSheet)
       IN  /\ kv' = k.store
           /\ sheet' = s.store
           /\ net' = net \o <<Answered(r, k), Answered(r, s)>>
    /\ UNCHANGED <<game, backend, now, mem, cache, ops>>

ServiceTick ==
    /\ now < StartTime + MaxTicks
    /\ now' = now + 1
    /\ UNCHANGED <<game, backend, mem, cache, kv, sheet, ops, net>>

\* two fresh deployments, or two deployments that took the same ten submissions
ServiceInit ==
    /\ game = InitialGame
    /\ backend = "both"
    /\ now = StartTime
    /\ mem = [m \in Modes |-> EmptyArr]
    /\ cache = [m \in Modes |-> NoText]
    /\ ops = <<>>
    /\ net = <<>>
    /\ \E list \in {<<>>, FullList} :
         /\ kv = [m \in Modes |->
                    IF m = "easy" /\ list # <<>> THEN JSONstringify(Arr(list))
                    ELSE NoText]
         /\ sheet = RowsOf("easy", list, 1)

ServiceNext ==
    \/ ServiceTick
    \/ \E r \in ServiceRequests, f1, f2, f3, f4 \in BOOLEAN : Serve(r, f1, f2, f3, f4)

ServiceSpec == ServiceInit /\ [][ServiceNext]_vars

(***************************************************************************)
(* The manager cut off from the remote, next to the two handlers: every    *)
(* fetch of the manager rejects, and each submission it ranks locally is   *)
(* also handed, at the same instant, to the two handlers, whose stores     *)
(* started from the list the manager loads from its cache.                 *)
(***************************************************************************)
MaxSubmissions == 2     \* addScore calls made while cut off

\* ten entries, 50 down to 5, the oldest on top
LadderList == [i \in 1..ManagerTop |-> NewEntry("P", 5 * (ManagerTop + 1 - i), i)]

\* addScore as a whole when its fetch rejects; called once the loads have settled
OfflineAddScore(mode, name, score) ==
    /\ \A i \in 1..Len(ops) : ops[i].pc = "done"
    /\ Len(ops) - 2 < MaxSubmissions
    /\ ~LocalThrows(GetScores(mem, mode))
    /\ LET updated == LocalInsert(GetScores(mem, mode),
                                  LocalEntry(Call("add", mode, name, score), now))
       IN  /\ mem' = SetScores(mem, mode, updated)
           /\ cache' = SaveScores(cache, mode, updated)
           /\ ops' = Append(MutateInPlace(ops, mode, updated),
                            [Call("add", mode, name, score) EXCEPT
                               !.pc = "done", !.outcome = "resolved", !.path = "local"])
    /\ net' = Append(net, [SubmitRequest(mode, name, score) EXCEPT !.st = "closed"])
    /\ kv' = KvHandler(kv, SubmitRequest(mode, name, score), now, FALSE, FALSE, FALSE).store
    /\ sheet' = SheetHandler(sheet, SubmitRequest(mode, name, score), now, FALSE).store
    /\ UNCHANGED <<game, backend, now>>

OfflineInit ==
    /\ game = InitialGame
    /\ backend = "both"
    /\ now = StartTime
    /\ mem = [m \in Modes |-> EmptyArr]
    /\ ops = <<Call("load", "easy", "", 0), Call("load", "hard", "", 0)>>
    /\ net = <<LoadRequest("easy"), LoadRequest("hard")>>
    /\ \E list \in {<<>>, LadderList} :
         /\ cache = [m \in Modes |->
                       IF m = "easy" /\ list # <<>> THEN JSONstringify(Arr(list))
                       ELSE NoText]
         /\ kv = cache
         /\ sheet = RowsOf("easy", list, 1)

OfflineNext ==
    \/ ServiceTick
    \/ \E i \in 1..Len(ops) : LoadScoresFallback(i)
    \/ \E m \in Modes, n \in Names, s \in ScoreInputs : OfflineAddScore(m, n, s)
    \/ \E m \in Modes : GetScoresCall(m)

OfflineSpec == OfflineInit /\ [][OfflineNext]_vars

(***************************************************************************)
(* Initial states: the manager has just been constructed (both lists       *)
(* empty, both loads awaiting their fetch); the stores hold what earlier   *)
(* sessions left.                                                          *)
(***************************************************************************)
\* what a GET of the deployed backend answers for a persisted list
RemoteView(b, mode, list) ==
    IF b = "kv" THEN Arr(list) ELSE Arr(SheetScores(RowsOf(mode, list, 1), mode))

Scenarios(b) ==
    { \* first run on a fresh deployment
      [easy |-> <<>>, hard |-> <<>>, ce |-> "none", ch |-> "none"],
      \* an earlier online session left its mirror in the cache
      [easy |-> FullList, hard |-> FewList, ce |-> "mirror", ch |-> "mirror"],
      \* an earlier offline session left device-local lists; one entry is damaged
      [easy |-> <<>>, hard |-> FewList, ce |-> "local", ch |-> "corrupt"],
      \* the cache was emptied, the remote lists are long
      [easy |-> FewList, hard |-> FullList, ce |-> "none", ch |-> "local"] }
    \cup
    IF b = "sheet"
    THEN { \* the earlier session ended with an accepted submission on each mode
           [easy |-> FewList, hard |-> FullList, ce |-> "posted", ch |-> "posted"] }
    ELSE {}

InitialCache(b, how, mode, list) ==
    CASE how = "none" -> NoText
      [] how = "corrupt" -> CorruptText
      [] how = "mirror" -> JSONstringify(RemoteView(b, mode, list))
      [] how = "local" -> JSONstringify(Arr(FullList))
      [] how = "posted" -> JSONstringify(SuccessObj)

Init ==
    /\ game = InitialGame
    /\ backend \in {"kv", "sheet"}
    /\ now = StartTime
    /\ mem = [m \in Modes |-> EmptyArr]
    /\ \E sc \in Scenarios(backend) :
         /\ kv = [m \in Modes |->
                    IF backend = "kv" /\ sc[m] # <<>> THEN JSONstringify(Arr(sc[m]))
                    ELSE NoText]
         /\ sheet = IF backend = "sheet"
                    THEN RowsOf("easy", sc["easy"], 1) \o RowsOf("hard", sc["hard"], 1)
                    ELSE <<>>
         /\ cache = [m \in Modes |->
                       InitialCache(backend, IF m = "easy" THEN sc.ce ELSE sc.ch,
                                    m, sc[m])]
    /\ ops = <<Call("load", "easy", "", 0), Call("load", "hard", "", 0)>>
    /\ net = <<LoadRequest("easy"), LoadRequest("hard")>>

Next ==
    \/ Tick
    \/ \E i \in 1..Len(ops) : LoadScoresOk(i)
    \/ \E i \in 1..Len(ops) : LoadScoresFallback(i)
    \/ \E m \in Modes, n \in Names, s \in ScoreInputs : AddScoreCall(m, n, s)
    \/ \E i \in 1..Len(ops) : AddScoreOk(i)
    \/ \E i \in 1..Len(ops) : AddScoreFallback(i)
    \/ \E m \in Modes : ClearScoresCall(m)
    \/ \E i \in 1..Len(ops) : ClearScoresDone(i)
    \/ \E m \in Modes : GetScoresCall(m)
    \/ \E m \in Modes, s \in ScoreInputs : IsHighScoreCall(m, s)
    \/ \E i \in 1..Len(net) : KvGet(i)
    \/ \E i \in 1..Len(net) : KvPostRead(i)
    \/ \E i \in 1..Len(net) : KvPostWrite(i)
    \/ \E i \in 1..Len(net) : KvPostReread(i)
    \/ \E i \in 1..Len(net) : SheetPost(i)
    \/ \E i \in 1..Len(net) : SheetGet(i)

Spec == Init /\ [][Next]_vars

(***************************************************************************)
(* Submissions the remote turns down.  addScore passes name and score on   *)
(* as it got them: an undefined name (written "") is left out of the body  *)
(* by JSON.stringify, a score that is a string goes out as a string.       *)
(***************************************************************************)
AddScoreCallUnchecked(mode, name, typ, score) ==
    /\ CanCall
    /\ ops' = Append(ops, [Call("add", mode, name, score) EXCEPT !.typeofScore = typ])
    /\ net' = Append(net, [SubmitRequest(mode, name, score) EXCEPT
                              !.hasName = (name # ""), !.typeofScore = typ])
    /\ UNCHANGED <<game, backend, now, mem, cache, kv, sheet>>

\* no name with a numeric score; a name with the score as a string
UncheckedInputs == {<<"", "number">>, <<"K", "string">>}

UncheckedNext ==
    \/ Tick
    \/ \E i \in 1..Len(ops) : LoadScoresOk(i)
    \/ \E i \in 1..Len(ops) : LoadScoresFallback(i)
    \/ \E m \in Modes, x \in UncheckedInputs, s \in ScoreInputs :
          AddScoreCallUnchecked(m, x[1], x[2], s)
    \/ \E i \in 1..Len(ops) : AddScoreOk(i)
    \/ \E i \in 1..Len(ops) : AddScoreFallback(i)
    \/ \E i \in 1..Len(net) : KvGet(i)
    \/ \E i \in 1..Len(net) : KvPostRead(i)
    \/ \E i \in 1..Len(net) : KvPostWrite(i)
    \/ \E i \in 1..Len(net) : KvPostReread(i)
    \/ \E i \in 1..Len(net) : SheetPost(i)
    \/ \E i \in 1..Len(net) : SheetGet(i)

UncheckedSpec == Init /\ [][UncheckedNext]_vars

(***************************************************************************)
(* A request that is never answered: no response arrives and the           *)
(* transport reports no error, so the promise of fetch stays pending.      *)
(***************************************************************************)
Hang(i) ==
    /\ i \in 1..Len(net) /\ net[i].st = "sent"
    /\ net' = [net EXCEPT ![i].st = "hung"]
    /\ UNCHANGED <<game, backend, now, mem, cache, kv, sheet, ops>>

HangNext == Next \/ \E i \in 1..Len(net) : Hang(i)

\* clearScores goes on after its await whenever its fetch has settled, or can
\* still be rejected by the transport
Resumed == WF_vars(\E i \in 1..Len(ops) : ClearScoresDone(i))

HangSpec == Init /\ [][HangNext]_vars /\ Resumed

(***************************************************************************)
(* Submissions served side by side by the key-value backend.  Clients      *)
(* other than the manager post entries; every invocation of the handler    *)
(* runs on its own, suspended at each await of the store, and the store    *)
(* reads succeed.                                                          *)
(***************************************************************************)
MaxPosts == 2       \* submissions in all

Posters == {"A", "B"}
\* what the deployment holds when the submissions arrive
StoredBefore == [easy |-> FewList, hard |-> FullList]
PostScores == {0, 7, 45}

Post(mode, name, score) ==
    /\ Len(net) < MaxPosts
    /\ \A k \in 1..Len(net) : net[k].name # name
    /\ net' = Append(net, SubmitRequest(mode, name, score))
    /\ UNCHANGED <<game, backend, now, mem, cache, kv, sheet, ops>>

ConcurrentInit ==
    /\ game = InitialGame
    /\ backend = "kv"
    /\ now = StartTime
    /\ mem = [m \in Modes |-> EmptyArr]
    /\ cache = [m \in Modes |-> NoText]
    /\ kv = [m \in Modes |-> JSONstringify(Arr(StoredBefore[m]))]
    /\ sheet = <<>>
    /\ ops = <<>>
    /\ net = <<>>

ConcurrentNext ==
    \/ ServiceTick
    \/ \E m \in Modes, n \in Posters, s \in PostScores : Post(m, n, s)
    \/ \E i \in 1..Len(net) : KvPostReadWith(i, FALSE)
    \/ \E i \in 1..Len(net) : KvPostWrite(i)
    \/ \E i \in 1..Len(net) : KvPostReread(i)

ConcurrentSpec == ConcurrentInit /\ [][ConcurrentNext]_vars

(***************************************************************************)
(* The game page: what the player, the fetch of data.json, the interval    *)
(* and the clock do.  The hard-mode button is disabled, so only the        *)
(* easy-mode button is clicked; touchmove changes nothing but CSS classes. *)
(***************************************************************************)
Rnd == [pick : 0..(NPeople - 1), other : 0..(NPeople - 2), top : BOOLEAN]
TouchYs == {0, 30, 80}
leaderboard == <<backend, now, mem, cache, kv, sheet, ops, net>>
Responsive == ~game.hung
\* the bound on the score of a game
MayGain == game.score < StartScore + MaxGain

\* loadGameData after its awaits: response.ok and the JSON parsed
DataLoaded ==
    /\ Responsive /\ game.fetching
    /\ game' = [Enter(game) EXCEPT !.gameData = "loaded", !.fetching = FALSE]
    /\ UNCHANGED leaderboard

\* loadGameData, catch: the alert; gameData stays null
DataFailed ==
    /\ Responsive /\ game.fetching
    /\ game' = [Enter(game) EXCEPT !.fetching = FALSE]
    /\ UNCHANGED leaderboard

ClickStart(rnd1, rnd2) ==
    /\ Responsive
    /\ game' = StartButton(game, rnd1, rnd2)
    /\ UNCHANGED leaderboard

ClickEasyMode ==
    /\ Responsive
    /\ game' = SetMode(Enter(game), "easy")
    /\ UNCHANGED leaderboard

ClickPlayAgain(rnd) ==
    /\ Responsive /\ ~game.modalHidden
    /\ game' = StartGame([Enter(game) EXCEPT !.modalHidden = TRUE], rnd)
    /\ UNCHANGED leaderboard

ClickName(isTopName, rnd) ==
    /\ Responsive /\ MayGain
    /\ game' = HandleNameClick(Enter(game), isTopName, rnd)
    /\ UNCHANGED leaderboard

TimerFires(id) ==
    /\ Responsive /\ id \in game.intervals
    /\ game' = Countdown(Enter(game))
    /\ UNCHANGED leaderboard

TouchStart(y) ==
    /\ Responsive /\ game.gameStarted
    /\ game' = [Enter(game) EXCEPT !.touchStartY = y]
    /\ UNCHANGED leaderboard

TouchEnds(y, rnd) ==
    /\ Responsive /\ MayGain
    /\ game' = TouchEnd(Enter(game), y, rnd)
    /\ UNCHANGED leaderboard

Advance ==
    /\ Responsive
    /\ game.clock < StartClock + MaxAdvances * ClockStep
    /\ game' = [game EXCEPT !.clock = @ + ClockStep]
    /\ UNCHANGED leaderboard

GameInit ==
    /\ game = InitialGame
    /\ backend = "none"
    /\ now = StartTime
    /\ mem = [m \in Modes |-> EmptyArr]
    /\ cache = [m \in Modes |-> NoText]
    /\ kv = [m \in Modes |-> NoText]
    /\ sheet = <<>>
    /\ ops = <<>>
    /\ net = <<>>

GameNext ==
    \/ DataLoaded
    \/ DataFailed
    \/ \E rnd1 \in Rnd, rnd2 \in Rnd : ClickStart(rnd1, rnd2)
    \/ ClickEasyMode
    \/ \E rnd \in Rnd : ClickPlayAgain(rnd)
    \/ \E b \in BOOLEAN, rnd \in Rnd : ClickName(b, rnd)
    \/ \E id \in TimerIds : TimerFires(id)
    \/ \E y \in TouchYs : TouchStart(y)
    \/ \E y \in TouchYs, rnd \in Rnd : TouchEnds(y, rnd)
    \/ Advance

GameSpec == GameInit /\ [][GameNext]_vars

(***************************************************************************)
(* Calls that overlap.  The manager is constructed on a fresh key-value    *)
(* deployment and both initial loads have been answered; the user then     *)
(* makes addScore and clearScores calls without waiting for the previous   *)
(* one.  The handler runs from request to response and no store call       *)
(* fails.                                                                  *)
(***************************************************************************)
MaxOverlap == 2     \* addScore and clearScores calls the user makes in all

KvServe(i) ==
    /\ i \in 1..Len(net) /\ net[i].st = "sent"
    /\ LET k == KvHandler(kv, net[i], now, FALSE, FALSE, FALSE)
       IN  /\ kv' = k.store
           /\ net' = [net EXCEPT ![i] = Answered(net[i], k)]
    /\ UNCHANGED <<game, backend, now, mem, cache, sheet, ops>>

Loaded(mode) ==
    [Call("load", mode, "", 0) EXCEPT
        !.pc = "done", !.outcome = "resolved", !.path = "remote"]

OverlapInit ==
    /\ game = InitialGame
    /\ backend = "kv"
    /\ now = StartTime
    /\ kv = [m \in Modes |-> NoText]
    /\ sheet = <<>>
    /\ mem = [m \in Modes |-> LoadAdoptMem([n \in Modes |-> EmptyArr], m,
                                           JSONstringify(KvGetScores(kv, m, FALSE)))[m]]
    /\ cache = [m \in Modes |-> JSONstringify(KvGetScores(kv, m, FALSE))]
    /\ ops = <<Loaded("easy"), Loaded("hard")>>
    /\ net = <<[LoadRequest("easy") EXCEPT !.st = "closed"],
               [LoadRequest("hard") EXCEPT !.st = "closed"]>>

OverlapNext ==
    \/ Tick
    \/ \E m \in Modes, n \in Names, s \in ScoreInputs :
          AddScoreCallWithin(MaxOverlap, m, n, s)
    \/ \E i \in 1..Len(ops) : AddScoreOk(i)
    \/ \E i \in 1..Len(ops) : AddScoreFallback(i)
    \/ \E m \in Modes : ClearScoresCallWithin(MaxOverlap, m)
    \/ \E i \in 1..Len(ops) : ClearScoresDone(i)
    \/ \E i \in 1..Len(net) : KvServe(i)

OverlapSpec == OverlapInit /\ [][OverlapNext]_vars

(***************************************************************************)
(* Properties.                                                             *)
(***************************************************************************)
ManagerKinds == {"load", "add", "clear"}
\* call i settles in this step
Settles(i) == i \in 1..Len(ops) /\ ops[i].pc = "fetch" /\ ops'[i].pc = "done"
SettlesBy(i, kind, path) ==
    Settles(i) /\ ops[i].kind = kind /\ ops'[i].path = path
\* a call of this kind is made in this step
Invoked(kind) ==
    Len(ops') = Len(ops) + 1 /\ ops'[Len(ops')].kind = kind
Newest == ops'[Len(ops')]

\* score descending, equal scores by date descending
IsRanked(v) ==
    /\ v.t = "arr"
    /\ \A j \in 1..(Len(v.items) - 1) :
          \/ v.items[j].score > v.items[j + 1].score
          \/ /\ v.items[j].score = v.items[j + 1].score
             /\ DateParse(v.items[j].date) >= DateParse(v.items[j + 1].date)

PersistedSomething(m) ==
    IF backend = "kv" THEN kv[m] # NoText
    ELSE \E j \in 1..Len(sheet) : sheet[j].mode = m

\* C1: the in-memory list of each mode holds at most 10 entries, in every
\* reachable state (getScores(mode).length <= 10).
C1_AtMostTen == \A m \in Modes : JsLe(LengthOf(GetScores(mem, m)), ManagerTop)

\* C2: whenever an addScore call settles, the list getScores returns for its
\* mode is sorted by score descending and, among equal scores, by date
\* descending.
C2_SortedAfterAdd ==
    [][\A i \in 1..Len(ops) :
          (Settles(i) /\ ops[i].kind = "add")
             => IsRanked(GetScores(mem', ops[i].mode))]_vars

\* C3: when addScore settles on a successful response, the in-memory list of
\* its mode is exactly the list in the response body and the cache entry of
\* that mode holds the text of that same list.
C3_AddAdoptsRemote ==
    [][\A i \in 1..Len(ops) :
          SettlesBy(i, "add", "remote")
             => /\ GetScores(mem', ops[i].mode) = JSONparse(net[i].body)
                /\ CanParse(GetItem(cache', ops[i].mode))
                /\ JSONparse(GetItem(cache', ops[i].mode)) = JSONparse(net[i].body)]_vars

C3_Witness ==
    \E i \in 1..Len(ops) :
        /\ ops[i].kind = "add" /\ ops[i].pc = "done" /\ ops[i].path = "remote"
        /\ mem[ops[i].mode].t = "arr"
        /\ \E j \in 1..Len(mem[ops[i].mode].items) :
              /\ mem[ops[i].mode].items[j].score = ops[i].score
              /\ DateParse(mem[ops[i].mode].items[j].date) >= StartTime
        /\ cache[ops[i].mode] = JSONstringify(mem[ops[i].mode])

\* C4: when addScore settles after a failed remote attempt, the in-memory list
\* and the cache entry of its mode both become the first 10 entries of the
\* previous list plus the new entry stamped with the current time, ordered by
\* score descending then date descending.
LocalExpected(prev, name, score, t) ==
    Arr(Truncate(SortBy("date", Append(prev.items, NewEntry(name, score, t))),
                 ManagerTop))
C4_FallbackInserts ==
    [][\A i \in 1..Len(ops) :
          (Settles(i) /\ ops[i].kind = "add" /\ ops'[i].path = "local")
             => LET expected == LocalExpected(GetScores(mem, ops[i].mode),
                                              ops[i].name, ops[i].score, now)
                IN  /\ GetScores(mem', ops[i].mode) = expected
                    /\ GetItem(cache', ops[i].mode) = JSONstringify(expected)]_vars

\* C5: when the initial load of a mode settles on a successful response, the
\* in-memory list of that mode is exactly the list in the response body and
\* the cache entry of that mode is the body, verbatim.
C5_LoadAdoptsRemote ==
    [][\A i \in 1..Len(ops) :
          SettlesBy(i, "load", "remote")
             => /\ GetScores(mem', ops[i].mode) = JSONparse(net[i].body)
                /\ GetItem(cache', ops[i].mode) = net[i].body]_vars

C5_Witness ==
    \E i \in 1..Len(ops) :
        /\ ops[i].kind = "load" /\ ops[i].pc = "done" /\ ops[i].path = "remote"
        /\ Len(mem[ops[i].mode].items) > 0
        /\ cache[ops[i].mode] = JSONstringify(mem[ops[i].mode])

\* C6: when the initial load of a mode settles after a failed remote attempt,
\* the in-memory list of that mode is the list stored in the cache entry of
\* that mode when one is stored and the empty list otherwise, and the cache is
\* left as it was.
C6_LoadFallsBackToCache ==
    [][\A i \in 1..Len(ops) :
          SettlesBy(i, "load", "cache")
             => /\ cache' = cache
                /\ GetScores(mem', ops[i].mode) =
                      IF CanParse(GetItem(cache, ops[i].mode))
                      THEN JSONparse(GetItem(cache, ops[i].mode))
                      ELSE EmptyArr]_vars

C6_Witness ==
    \E i \in 1..Len(ops) :
        /\ ops[i].kind = "load" /\ ops[i].pc = "done" /\ ops[i].path = "cache"
        /\ Len(mem[ops[i].mode].items) > 0
        /\ cache[ops[i].mode] = JSONstringify(mem[ops[i].mode])
        /\ \E k \in 1..Len(ops) :
              /\ ops[k].kind = "load" /\ ops[k].pc = "done" /\ ops[k].path = "cache"
              /\ cache[ops[k].mode] = NoText /\ mem[ops[k].mode] = EmptyArr

\* C7: no call on the manager ends in a thrown exception or a rejected promise.
C7_NeverRejects == \A i \in 1..Len(ops) : ops[i].outcome # "rejected"

\* C8: in the very step clearScores(mode) is called, the in-memory list and the
\* cache entry of that mode become the empty list, while the clear request is
\* still unanswered.
C8_ClearIsImmediate ==
    [][Invoked("clear")
          => /\ GetScores(mem', Newest.mode) = EmptyArr
             /\ GetItem(cache', Newest.mode) = JSONstringify(EmptyArr)
             /\ Newest.pc = "fetch"
             /\ net'[Len(net')].st = "sent"]_vars

C8_Witness ==
    \E i \in 1..Len(ops) :
        /\ ops[i].kind = "clear" /\ ops[i].pc = "fetch" /\ net[i].st = "sent"
        /\ mem[ops[i].mode] = EmptyArr
        /\ cache[ops[i].mode] = JSONstringify(EmptyArr)
        /\ PersistedSomething(ops[i].mode)

\* C9: a step of a load, addScore or clearScores made for one mode leaves the
\* in-memory list and the cache entry of the other mode unchanged.
C9_OtherModeUntouched ==
    [][\A i \in 1..Len(ops') :
          (ops'[i].kind \in ManagerKinds /\ (i > Len(ops) \/ Settles(i)))
             => /\ mem'[OtherMode(ops'[i].mode)] = mem[OtherMode(ops'[i].mode)]
                /\ cache'[OtherMode(ops'[i].mode)] = cache[OtherMode(ops'[i].mode)]]_vars

C9_Witness ==
    \E i, k \in 1..Len(ops) :
        /\ ops[i].kind = "add" /\ ops[i].pc = "done" /\ ops[i].path = "local"
        /\ ops[i].outcome = "resolved"
        /\ ops[k].kind = "load" /\ ops[k].pc = "done" /\ ops[k].mode = "hard"
        /\ ops[i].mode = "hard"
        /\ Len(mem["easy"].items) > 0 /\ Len(mem["hard"].items) > 0
        /\ mem["easy"] # mem["hard"]

\* C10: isHighScore(mode, s) returns true for every s, zero and negative
\* included, whenever the in-memory list of that mode has fewer than 10
\* entries.
C10_HighScoreWhenNotFull ==
    [][Invoked("high")
          => (JsLt(LengthOf(GetScores(mem, Newest.mode)), ManagerTop)
                 => Newest.retb)]_vars

C10_Witness ==
    \E i \in 1..Len(ops) :
        /\ ops[i].kind = "high" /\ ops[i].score < 0 /\ ops[i].retb
        /\ ops[i].retv.t = "arr" /\ Len(ops[i].retv.items) > 0
        /\ Len(ops[i].retv.items) < ManagerTop
        /\ ops[i].retv.items[Len(ops[i].retv.items)].score > ops[i].score

\* C11: when the in-memory list of a mode holds exactly 10 entries,
\* isHighScore(mode, s) returns true if and only if s is strictly greater than
\* the lowest score found in that list.
LowestScoreIn(v) ==
    CHOOSE s \in {v.items[j].score : j \in 1..Len(v.items)} :
        \A j \in 1..Len(v.items) : s <= v.items[j].score
C11_HighScoreWhenFull ==
    [][Invoked("high")
          => LET scores == GetScores(mem, Newest.mode)
             IN  (scores.t = "arr" /\ Len(scores.items) = ManagerTop)
                    => (Newest.retb <=> Newest.score > LowestScoreIn(scores))]_vars

\* a candidate equal to the lowest score of a full list is turned down
C11_Witness ==
    \E i \in 1..Len(ops) :
        /\ ops[i].kind = "high" /\ ~ops[i].retb
        /\ ops[i].retv.t = "arr" /\ Len(ops[i].retv.items) = ManagerTop
        /\ ops[i].score = LowestScoreIn(ops[i].retv)
        /\ ops[i].retv.items[1].score > ops[i].score

\* the step serves a request; the two answers are the last two of net
Served == Len(net') = Len(net) + 2
KvAnswer == net'[Len(net') - 1]
SheetAnswer == net'[Len(net')]
\* the list a store holds for a mode, as its handler ranks it
KvPersisted(store, mode) == KvGetScores(store, mode, FALSE)
SheetPersisted(rows, mode) == Arr(SheetScores(rows, mode))
\* a list with the name, score and date of its entries only
Plain(v) == [v EXCEPT !.items = [j \in 1..Len(v.items) |-> [v.items[j] EXCEPT !.mode = "-"]]]
ValidSubmission(r) ==
    /\ r.method = "POST" /\ r.mode \in Modes
    /\ r.hasName /\ r.name # "" /\ r.typeofScore = "number"
InvalidSubmission(r) ==
    /\ r.method = "POST"
    /\ (r.mode = "" \/ ~r.hasName \/ r.typeofScore # "number")
RankedInsert(prev, r, t, top) ==
    Arr(Truncate(SortBy("date", Append(prev.items, NewEntry(r.name, r.score, t))), top))
PostKeepsContract(answer, before, after, top) ==
    answer.status = 200
        => /\ CanParse(answer.body)
           /\ JSONparse(answer.body).t = "arr"
           /\ Plain(JSONparse(answer.body)) = Plain(after)
           /\ Plain(after) = RankedInsert(Plain(before), answer, now, top)

\* C12: when a POST of a complete {mode, name, score} is answered 200, by
\* either backend, the body is the list persisted for that mode after the
\* insertion, and that list is the previous one with the new entry stamped
\* with the server's time, sorted by score then date and cut to 10.
C12_PostReturnsPersistedList ==
    [][(Served /\ ValidSubmission(KvAnswer))
          => /\ PostKeepsContract(KvAnswer, KvPersisted(kv, KvAnswer.mode),
                                  KvPersisted(kv', KvAnswer.mode), KvTop)
             /\ PostKeepsContract(SheetAnswer, SheetPersisted(sheet, SheetAnswer.mode),
                                  SheetPersisted(sheet', SheetAnswer.mode), SheetTop)]_vars

GetKeepsContract(answer, top) ==
    answer.status = 200
        => /\ CanParse(answer.body)
           /\ LET v == JSONparse(answer.body)
              IN  /\ v.t = "arr"
                  /\ Len(v.items) <= top
                  /\ IsRanked(v)
                  /\ \A j \in 1..Len(v.items) :
                        v.items[j].mode = "-" /\ v.items[j].typeofScore = "number"

\* C13: a GET answered 200, by either backend, carries at most 10 entries,
\* sorted by score descending and then date descending, each of them a
\* {name, score, date} with a numeric score and no other key.
C13_GetReturnsRankedList ==
    [][(Served /\ KvAnswer.method = "GET")
          => /\ GetKeepsContract(KvAnswer, KvTop)
             /\ GetKeepsContract(SheetAnswer, SheetTop)]_vars

\* C14: a POST without mode, without name or with a score that is not a number
\* is answered 400 by either backend and changes neither store.
C14_InvalidPostRejected ==
    [][(Served /\ InvalidSubmission(KvAnswer))
          => /\ KvAnswer.status = 400 /\ SheetAnswer.status = 400
             /\ kv' = kv /\ sheet' = sheet]_vars

\* C15: served the same requests at the same instants, with no store failure,
\* the key-value and the spreadsheet handler answer every request with the
\* same status and the same body.
C15_BackendsAnswerAlike ==
    [][\A r \in ServiceRequests :
          Serve(r, FALSE, FALSE, FALSE, FALSE)
             => /\ KvAnswer.status = SheetAnswer.status
                /\ KvAnswer.body = SheetAnswer.body]_vars

\* C16: with every fetch of the manager rejecting, once the loads have
\* settled the in-memory list of each mode holds the entries, in the order,
\* of the list each backend would hold after the same submissions made at the
\* same instants on top of the same starting list.
C16_OfflineMatchesRemote ==
    (\A i \in 1..Len(ops) : ops[i].pc = "done")
        => \A m \in Modes :
              /\ Plain(GetScores(mem, m)) = Plain(KvPersisted(kv, m))
              /\ Plain(GetScores(mem, m)) = Plain(SheetPersisted(sheet, m))

\* the list the deployed backend holds for a mode
Persisted(b, store, rows, m) ==
    IF b = "kv" THEN KvPersisted(store, m) ELSE SheetPersisted(rows, m)
\* request i is answered in this step
AnsweredNow(i) == net[i].st # "replied" /\ net'[i].st = "replied"

\* C17: once the remote has answered the clear request of clearScores(mode),
\* the list persisted for that mode is empty, and a GET for that mode
\* answered 200 afterwards carries the empty list.
C17_RemoteClearEmpties ==
    [][\A i \in 1..Len(ops) :
          ops[i].kind = "clear"
             => /\ AnsweredNow(i)
                   => Persisted(backend, kv', sheet', ops[i].mode) = EmptyArr
                /\ \A j \in 1..Len(net) :
                      (/\ net[i].status # 0
                       /\ AnsweredNow(j) /\ net'[j].method = "GET"
                       /\ ModeOrEasy(net'[j]) = ops[i].mode /\ net'[j].status = 200)
                         => JSONparse(net'[j].body) = EmptyArr]_vars

\* C18: every clearScores call completes, whatever happens to its request:
\* rejected, answered with an error status, or never answered.
C18_ClearCompletes ==
    (\E i \in 1..Len(ops) : ops[i].kind = "clear" /\ ops[i].pc = "fetch")
        ~> (\A i \in 1..Len(ops) : ops[i].kind = "clear" => ops[i].pc = "done")

\* C19: when the initial load of a mode falls back to a cache entry that does
\* not parse, the in-memory list of that mode is the empty list afterwards
\* and the load ends without an error.
C19_CorruptCacheIsAbsent ==
    [][\A i \in 1..Len(ops) :
          (/\ SettlesBy(i, "load", "cache")
           /\ GetItem(cache, ops[i].mode) # NoText
           /\ ~CanParse(GetItem(cache, ops[i].mode)))
             => /\ GetScores(mem', ops[i].mode) = EmptyArr
                /\ ops'[i].outcome = "resolved"]_vars

\* C20: a load, addScore or clearScores sends its one request when it is
\* called and none afterwards: no other step adds a request, a request that
\* has been answered or has failed is never sent again, and the step in which
\* the call takes the cache or local path closes the request and ends the call.
C20_OneRequestPerOperation ==
    [][/\ Len(net') = Len(ops')
       /\ \A i \in 1..Len(ops') :
             (i > Len(ops) /\ ops'[i].kind \in ManagerKinds) => net'[i].st = "sent"
       /\ \A i \in 1..Len(ops') :
             (i > Len(ops) /\ ops'[i].kind \notin ManagerKinds) => net'[i].st = "closed"
       /\ \A i \in 1..Len(net) :
             /\ net[i].st # "sent" => net'[i].st # "sent"
             /\ (Settles(i) /\ ops'[i].path \in {"cache", "local"})
                   => net'[i].st = "closed"
             /\ net'[i].st = "closed" => ops'[i].pc = "done"]_vars

\* a submission answered 500 went to the local path with its one request closed
C20_Witness ==
    \E i \in 1..Len(ops) :
        /\ ops[i].kind = "add" /\ ops[i].pc = "done" /\ ops[i].path = "local"
        /\ ops[i].outcome = "resolved"
        /\ net[i].st = "closed" /\ net[i].status = 500
        /\ Len(net) = Len(ops)
        /\ \A k \in 1..Len(ops) : ops[k].pc = "done" /\ net[k].st = "closed"

C22_ReadsArePure ==
    [][(Invoked("get") \/ Invoked("high"))
          => /\ mem' = mem /\ cache' = cache /\ kv' = kv /\ sheet' = sheet
             /\ Len(net') = Len(net) + 1
             /\ net'[Len(net')].st = "closed"
             /\ \A i \in 1..Len(net) : net'[i] = net[i]
             /\ \A i \in 1..Len(ops) : ops'[i] = ops[i]]_vars

\* a read made while a load is still in flight, with lists in memory and
\* entries persisted
C22_Witness ==
    \E i, k \in 1..Len(ops) :
        /\ ops[i].kind = "get" /\ ops[i].pc = "done" /\ net[i].st = "closed"
        /\ Len(ops[i].retv.items) > 0
        /\ ops[k].kind = "load" /\ ops[k].pc = "fetch" /\ net[k].st = "sent"
        /\ PersistedSomething(ops[i].mode)

\* C23: a GET whose mode is missing or is none of easy and hard is answered,
\* by either backend and with no store failure, with the ranked list of easy.
C23_GetDefaultsToEasy ==
    [][\A r \in ServiceRequests :
          (/\ r.method = "GET" /\ r.mode \notin Modes
           /\ Serve(r, FALSE, FALSE, FALSE, FALSE))
             => /\ KvAnswer.status = 200
                /\ JSONparse(KvAnswer.body) = KvPersisted(kv, "easy")
                /\ SheetAnswer.status = 200
                /\ JSONparse(SheetAnswer.body) = SheetPersisted(sheet, "easy")]_vars

\* C24: a GET served while the store fails, for a mode that has entries
\* persisted, is not answered 200; and a load that settles on an answer other
\* than 200 adopts what the cache entry of its mode holds (nothing, or a text
\* that parses) and leaves the cache as it was.
C24_StoreFailureOnGet ==
    [][\A i \in 1..Len(net) :
          /\ (/\ net[i].st = "sent"
              /\ Persisted(backend, kv, sheet, ModeOrEasy(net[i])) # EmptyArr
              /\ (KvGetWith(i, TRUE) \/ SheetGetWith(i, TRUE)))
                => net'[i].status # 200
          /\ (/\ Settles(i) /\ ops[i].kind = "load"
              /\ Replied(i) /\ net[i].status # 200
              /\ ~LoadFallbackThrows(cache, ops[i].mode))
                => /\ GetScores(mem', ops[i].mode) = LoadFallbackScores(cache, ops[i].mode)
                   /\ cache' = cache]_vars

\* C25: a complete POST served while the store fails (the read of the current
\* list, the write of the new one, or the read for the response), for a mode
\* that has entries persisted, is answered 500 and leaves the store as it was.
C25_StoreFailureOnPost ==
    [][\A r \in ServiceRequests : \A f1, f2, f3, f4 \in BOOLEAN :
          (/\ ValidSubmission(r)
           /\ KvPersisted(kv, r.mode) # EmptyArr
           /\ Serve(r, f1, f2, f3, f4))
             => /\ (f1 \/ f2 \/ f3) => (KvAnswer.status = 500 /\ kv' = kv)
                /\ f4 => (SheetAnswer.status = 500 /\ sheet' = sheet)]_vars

\* C26: when addScore settles on a 400 answer, the call ends without an error
\* and the in-memory list and the cache entry of its mode become the previous
\* list with the entry, as submitted and stamped with the current time,
\* ranked in and cut to 10.
C26_RejectedSubmissionFallsBack ==
    [][\A i \in 1..Len(ops) :
          (/\ Settles(i) /\ ops[i].kind = "add"
           /\ Replied(i) /\ net[i].status = 400)
             => LET prev == GetScores(mem, ops[i].mode)
                    expected == Arr(Truncate(SortBy("date",
                                      Append(prev.items, LocalEntry(ops[i], now))),
                                      ManagerTop))
                IN  /\ ops'[i].outcome = "resolved"
                    /\ GetScores(mem', ops[i].mode) = expected
                    /\ GetItem(cache', ops[i].mode) = JSONstringify(expected)]_vars

\* C27: a list getScores returns is a complete ranked list of at most 10
\* entries, the one held in memory at that moment, and no later step of any
\* operation changes a list that a reader already holds.
C27_ReadersSeeWholeLists ==
    [][/\ Invoked("get")
          => /\ Newest.retv = GetScores(mem, Newest.mode)
             /\ IsRanked(Newest.retv)
             /\ Len(Newest.retv.items) <= ManagerTop
       /\ \A k \in 1..Len(ops) :
             ops[k].kind = "get" => ops'[k].retv = ops[k].retv]_vars

\* the last addScore or clearScores call made for the mode
Mutations(m) == {k \in 1..Len(ops) : ops[k].mode = m /\ ops[k].kind \in {"add", "clear"}}
LastMutation(m) == ops[CHOOSE k \in Mutations(m) : \A j \in Mutations(m) : j <= k]

\* C28: once every addScore and clearScores call has completed, the list in
\* memory and the cache entry of a mode are those of the calls applied one
\* after another in the order they were made: empty when the last call for
\* the mode was clearScores, and the list the remote holds when the last call
\* was an addScore the remote accepted.
C28_CallsTakeEffectInOrder ==
    (\A k \in 1..Len(ops) : ops[k].pc = "done") =>
        \A m \in Modes :
            Mutations(m) # {} =>
                /\ LastMutation(m).kind = "clear" =>
                       /\ GetScores(mem, m) = EmptyArr
                       /\ GetItem(cache, m) = JSONstringify(EmptyArr)
                /\ LastMutation(m).kind = "add" /\ LastMutation(m).path = "remote" =>
                       /\ GetScores(mem, m) = KvPersisted(kv, m)
                       /\ GetItem(cache, m) = JSONstringify(KvPersisted(kv, m))

\* the list holds the entry an addScore call submitted
HoldsEntryOf(v, op) ==
    /\ v.t = "arr"
    /\ \E k \in 1..Len(v.items) :
          v.items[k].name = op.name /\ v.items[k].score = op.score
\* an addScore or clearScores call for the mode is made in this step
MutationInvoked(m) == (Invoked("add") \/ Invoked("clear")) /\ Newest.mode = m

\* C29: what an addScore or clearScores call made after construction did is
\* not undone by the constructor's load of that mode completing later: when
\* clearScores completes the list in memory is empty, and from then on, until
\* the next addScore or clearScores call for the mode, an empty list of a
\* completed clearScores stays empty and an entry that a completed addScore
\* ranked into the list stays in it.
C29_LoadDoesNotUndoCalls ==
    [][\A i \in 1..Len(ops) :
          /\ Settles(i) /\ ops[i].kind = "clear"
                => GetScores(mem', ops[i].mode) = EmptyArr
          /\ ops[i].pc = "done" /\ ops[i].outcome = "resolved"
                /\ ~MutationInvoked(ops[i].mode)
                => /\ ops[i].kind = "clear" /\ GetScores(mem, ops[i].mode) = EmptyArr
                        => GetScores(mem', ops[i].mode) = EmptyArr
                   /\ ops[i].kind = "add" /\ HoldsEntryOf(GetScores(mem, ops[i].mode), ops[i])
                        => HoldsEntryOf(GetScores(mem', ops[i].mode), ops[i])]_vars

\* the entries of a list, whatever their order
EntriesOf(v) == {v.items[k] : k \in 1..Len(v.items)}

\* C30: isHighScore agrees with the local ranking: when isHighScore is false
\* for a score on the list in memory, an addScore of that score that the
\* local fallback serves leaves the list with the entries it had (the new
\* entry is the one cut off).
C30_NotHighMeansNotRanked ==
    [][\A i \in 1..Len(ops) :
          SettlesBy(i, "add", "local") /\ ops'[i].outcome = "resolved"
              /\ ~IsHighScore(GetScores(mem, ops[i].mode), ops[i].score)
          => EntriesOf(GetScores(mem', ops[i].mode))
                 = EntriesOf(GetScores(mem, ops[i].mode))]_vars

\* the initial load of the mode has completed and no operation on the mode is
\* in progress
Quiet(m) ==
    /\ \A k \in 1..Len(ops) : ops[k].mode = m => ops[k].pc = "done"
    /\ \E k \in 1..Len(ops) : ops[k].kind = "load" /\ ops[k].mode = m

\* C31: once the initial load of a mode has completed, whenever no operation
\* on the mode is in progress, the cache entry of the mode, when there is
\* one, decodes to exactly the list held in memory for the mode.
C31_CacheMirrorsMemory ==
    \A m \in Modes :
        Quiet(m) /\ GetItem(cache, m) # NoText =>
            /\ CanParse(GetItem(cache, m))
            /\ JSONparse(GetItem(cache, m)) = GetScores(mem, m)

\* submission i was answered with 200
Accepted(i) == net[i].method = "POST" /\ net[i].st = "replied" /\ net[i].status = 200
\* entries of the earlier list and of the other submissions that rank above
\* submission i whatever the instants of the submissions are
RankedAbove(i) ==
    Cardinality({k \in 1..Len(StoredBefore[net[i].mode]) :
                    StoredBefore[net[i].mode][k].score > net[i].score})
    + Cardinality({j \in 1..Len(net) :
                    j # i /\ net[j].mode = net[i].mode /\ net[j].score >= net[i].score})

\* C32: when the submissions for a mode have all been answered with 200 by
\* the key-value backend, every submitted entry that ranks in the top 10 of
\* the earlier list plus the submitted entries is in the persisted list.
C32_ConcurrentPostsBothPersist ==
    (Len(net) = MaxPosts /\ \A i \in 1..Len(net) : Accepted(i)) =>
        \A i \in 1..Len(net) :
            RankedAbove(i) < KvTop =>
                \E k \in 1..Len(KvPersisted(kv, net[i].mode).items) :
                    /\ KvPersisted(kv, net[i].mode).items[k].name = net[i].name
                    /\ KvPersisted(kv, net[i].mode).items[k].score = net[i].score

\* C33: exactly one countdown interval is running whenever gameStarted is
\* true and none whenever it is false, after any sequence of start, answer,
\* mode, interval, game-over and play-again events, a start before data.json
\* has loaded included.
C33_OneTimerWhileStarted ==
    /\ game.gameStarted => Cardinality(game.intervals) = 1
    /\ ~game.gameStarted => game.intervals = {}

\* C34: with the data of at least two people loaded, every call of
\* selectRandomPerson returns, with a current person and another, different
\* person chosen, whatever images correct answers have marked as used.
C34_SelectionTerminates ==
    game.gameData = "loaded" /\ game.selected # "-" =>
        /\ game.selected = "chosen"
        /\ game.currentPerson \in People
        /\ game.otherPerson \in People \ {game.currentPerson}

\* C35: while a game is in progress, a click on the start button, then
\* labelled 'Next Person', only moves to another person: the score, the set
\* of used images and the countdown interval stay as they were.
C35_NextPersonOnlyMoves ==
    [][\A rnd1 \in Rnd, rnd2 \in Rnd :
          ClickStart(rnd1, rnd2) /\ game.gameStarted /\ game.label = "Next Person"
          => /\ game'.score = game.score
             /\ game'.usedImages = game.usedImages
             /\ game'.gameTimer = game.gameTimer
             /\ game'.intervals = game.intervals]_vars

\* a swipe: the touch ends at y, far enough from where it started
IsSwipe(y) ==
    \/ y - game.touchStartY >= SWIPE_THRESHOLD
    \/ game.touchStartY - y >= SWIPE_THRESHOLD

\* C36: during a started game, a vertical swipe of at least SWIPE_THRESHOLD
\* that ends at least CLICK_BUFFER_TIME after the previous accepted
\* interaction is an answer: the score changes by one, upwards exactly when
\* the swipe points at the correct name (up for the top name, down for the
\* bottom name).
C36_SwipeAnswers ==
    [][\A y \in TouchYs, rnd \in Rnd :
          TouchEnds(y, rnd) /\ game.gameStarted /\ IsSwipe(y)
              /\ game.clock - game.lastClickTime >= CLICK_BUFFER_TIME
          => IF (y < game.touchStartY) = game.correctNameOnTop
             THEN game'.score = game.score + 1
             ELSE game'.score = game.score - 1]_vars

====
